---- MODULE Spec2Model ----
(***************************************************************************)
(* Model of interval_map<K, V> (src/interval_map.h).                       *)
(*                                                                         *)
(* std::map<K, V> is modelled as a sequence of pairs [first, second] kept  *)
(* in strictly ascending order of .first; an iterator is an index into     *)
(* that sequence, begin() = 1 and end() = Len + 1.  K is int, V is a small *)
(* set of integers (char in the test: 'A' = 65, ...).                      *)
(***************************************************************************)
EXTENDS Integers, Sequences, FiniteSets, TLC

\* bounds of the explored instance
MaxKey == 4
MaxVal == 2
PairMaxKey == 2

Keys == 0..MaxKey
Values == 0..MaxVal
PairKeys == 0..PairMaxKey
\* keys at which lookups are observed: one below and one above every stored key
ProbeKeys == (0 - 1)..(MaxKey + 1)

VARIABLES
    m_valBegin,   \* interval_map::m_valBegin
    m_map,        \* interval_map::m_map
    call,         \* the member function call in progress: its arguments and result
    pre_map,      \* m_map as it was when that call was entered
    other_map,    \* m_map of a second instance built with the same default value
    pc            \* number of assign calls IntervalMapTest has made

vars == <<m_valBegin, m_map, call, pre_map, other_map, pc>>

----------------------------------------------------------------------------
(* std::map and std::pair                                                  *)

make_pair(k, v) == [first |-> k, second |-> v]

begin(m) == 1

end(m) == Len(m) + 1

empty(m) == Len(m) = 0

\* first position whose key is not less than key, end() if there is none
lower_bound(m, key) ==
    CHOOSE it \in 1..(Len(m) + 1) :
        /\ \A j \in 1..(it - 1) : m[j].first < key
        /\ it <= Len(m) => ~(m[it].first < key)

\* first position whose key is greater than key, end() if there is none
upper_bound(m, key) ==
    CHOOSE it \in 1..(Len(m) + 1) :
        /\ \A j \in 1..(it - 1) : ~(key < m[j].first)
        /\ it <= Len(m) => key < m[it].first

\* insert(pair) and insert(hint, pair): no effect when the key is present
insert(m, p) ==
    IF \E i \in 1..Len(m) : m[i].first = p.first
    THEN m
    ELSE LET n == Cardinality({i \in 1..Len(m) : m[i].first < p.first})
         IN  SubSeq(m, 1, n) \o <<p>> \o SubSeq(m, n + 1, Len(m))

erase_inclusive(m, first, last) ==
    SubSeq(m, 1, first - 1) \o SubSeq(m, last + 1, Len(m))

\* erase(first, last): removes the positions first .. last - 1
erase(m, first, last) == SubSeq(m, 1, first - 1) \o SubSeq(m, last, Len(m))

----------------------------------------------------------------------------
(* interval_map::interval_map                                              *)

interval_map_valueinit(val) == [m_valBegin |-> 0, m_map |-> <<>>]

\* the object after interval_map(val): val is forwarded into m_valBegin and
\* m_map is default-constructed
interval_map(val) == [m_valBegin |-> val, m_map |-> <<>>]

----------------------------------------------------------------------------
(* interval_map::operator[]                                                *)

operator_index(valBegin, m, key) ==
    LET it == upper_bound(m, key)
    IN  IF it = begin(m) THEN valBegin ELSE m[it - 1].second

----------------------------------------------------------------------------
(* interval_map::assign                                                    *)

IsEmptyInterval_eq(keyBegin, keyEnd) == keyEnd < keyBegin

IsEmptyInterval(keyBegin, keyEnd) == ~(keyBegin < keyEnd)

assign_empty_setsdefault(valBegin, m, keyBegin, keyEnd, val) ==
    [m_valBegin |-> val,
     m_map |-> insert(insert(m, make_pair(keyBegin, val)),
                      make_pair(keyEnd, valBegin))]

assign_empty_endval(valBegin, m, keyBegin, keyEnd, val) ==
    [m_valBegin |-> valBegin,
     m_map |-> insert(insert(m, make_pair(keyBegin, val)),
                      make_pair(keyEnd, val))]

\* the branch taken when m_map is empty
assign_empty(valBegin, m, keyBegin, keyEnd, val) ==
    [m_valBegin |-> valBegin,
     m_map |-> insert(insert(m, make_pair(keyBegin, val)),
                      make_pair(keyEnd, valBegin))]

valEnd_default(valBegin, m, itEnd) == valBegin

\* valEnd: the value in force at keyEnd before the call
valEnd_of(valBegin, m, itEnd) ==
    IF itEnd # begin(m) THEN m[itEnd - 1].second ELSE valBegin

\* itStart after the conditional itStart--
itStart_init(m, itEnd) == IF itEnd # begin(m) THEN itEnd - 1 ELSE itEnd

\* the backward walk; it reads itStart->first before testing for begin()
RECURSIVE scan_back(_, _, _)
scan_back(m, keyBegin, itStart) ==
    IF keyBegin < m[itStart].first /\ itStart # begin(m)
    THEN scan_back(m, keyBegin, itStart - 1)
    ELSE itStart

\* the positions whose key the backward walk reads in its loop condition
RECURSIVE scan_reads(_, _, _)
scan_reads(m, keyBegin, itStart) ==
    IF /\ itStart \in 1..Len(m)
       /\ keyBegin < m[itStart].first
       /\ itStart # begin(m)
    THEN {itStart} \cup scan_reads(m, keyBegin, itStart - 1)
    ELSE {itStart}

step_forward_never(m, keyBegin, itStart, itEnd) == itStart

step_forward_always(m, keyBegin, itStart, itEnd) ==
    IF itStart # itEnd THEN itStart + 1 ELSE itStart

\* the step forward past a boundary that lies before keyBegin
step_forward(m, keyBegin, itStart, itEnd) ==
    IF m[itStart].first < keyBegin /\ itStart # itEnd
    THEN itStart + 1
    ELSE itStart

\* itStart when the scan is over
itStart_of(m, keyBegin, itEnd) ==
    step_forward(m, keyBegin,
                 scan_back(m, keyBegin, itStart_init(m, itEnd)), itEnd)

\* every position whose key is read through itStart: by the loop condition of
\* the backward walk and by the test of the step forward
key_reads(m, keyBegin, itEnd) ==
    scan_reads(m, keyBegin, itStart_init(m, itEnd))
        \cup {scan_back(m, keyBegin, itStart_init(m, itEnd))}

differsFromPreviousValue(m, itStart, val) ==
    ~(itStart # begin(m) /\ m[itStart - 1].second = val)

differsFromDefault(valBegin, m, itStart, val) ==
    ~(itStart = begin(m) /\ val = valBegin)

\* the branch taken when m_map is not empty
assign_nonempty(valBegin, m, keyBegin, keyEnd, val) ==
    LET itEnd    == upper_bound(m, keyEnd)
        valEnd   == valEnd_of(valBegin, m, itEnd)
        itStart  == itStart_of(m, keyBegin, itEnd)
        dPrev    == differsFromPreviousValue(m, itStart, val)
        dDefault == differsFromDefault(valBegin, m, itStart, val)
        erased   == erase(m, itStart, itEnd)
        withBeg  == IF dPrev /\ dDefault
                    THEN insert(erased, make_pair(keyBegin, val))
                    ELSE erased
        withEnd  == IF ~(valEnd = val)
                    THEN insert(withBeg, make_pair(keyEnd, valEnd))
                    ELSE withBeg
    IN  [m_valBegin |-> valBegin, m_map |-> withEnd]

\* the object after assign(keyBegin, keyEnd, val)
assign(valBegin, m, keyBegin, keyEnd, val) ==
    IF IsEmptyInterval(keyBegin, keyEnd)
    THEN [m_valBegin |-> valBegin, m_map |-> m]
    ELSE IF empty(m)
         THEN assign_empty(valBegin, m, keyBegin, keyEnd, val)
         ELSE assign_nonempty(valBegin, m, keyBegin, keyEnd, val)

----------------------------------------------------------------------------
(* The object under arbitrary calls                                        *)

\* no member function is being executed
NoCall == [fn |-> "none", keyBegin |-> 0, keyEnd |-> 0, val |-> 0,
           key |-> 0, ret |-> 0]

\* the constructor call with argument val
ConstructorCall(val) == [fn |-> "interval_map", keyBegin |-> 0, keyEnd |-> 0,
                         val |-> val, key |-> 0, ret |-> 0]

\* interval_map(val) has run to its end, with val drawn from Values
Init ==
    /\ \E val \in Values :
        /\ m_valBegin = interval_map(val).m_valBegin
        /\ m_map = interval_map(val).m_map
        /\ call = ConstructorCall(val)
    /\ pre_map = <<>>
    /\ other_map = <<>>
    /\ pc = 0

\* assign is called with arguments drawn from K x K x Values and runs to its
\* return statement
AssignOn(K) ==
    \E keyBegin \in K, keyEnd \in K, val \in Values :
        LET r == assign(m_valBegin, m_map, keyBegin, keyEnd, val)
        IN  /\ call = NoCall
            /\ m_valBegin' = r.m_valBegin
            /\ m_map' = r.m_map
            /\ pre_map' = m_map
            /\ call' = [fn |-> "assign", keyBegin |-> keyBegin,
                        keyEnd |-> keyEnd, val |-> val, key |-> 0, ret |-> 0]

\* operator[] is called with the key drawn from K and runs to its return
\* statement
LookupOn(K) ==
    \E key \in K :
        /\ call = NoCall
        /\ call' = [fn |-> "operator[]", keyBegin |-> 0, keyEnd |-> 0,
                    val |-> 0, key |-> key,
                    ret |-> operator_index(m_valBegin, m_map, key)]
        /\ pre_map' = m_map
        /\ UNCHANGED <<m_valBegin, m_map>>

Assign == AssignOn(Keys) /\ UNCHANGED <<other_map, pc>>

Lookup == LookupOn(ProbeKeys) /\ UNCHANGED <<other_map, pc>>

\* the call returns to its caller: arguments and result go out of scope
Return ==
    /\ call # NoCall
    /\ call' = NoCall
    /\ pre_map' = m_map
    /\ UNCHANGED <<m_valBegin, m_map, other_map, pc>>

Next == Assign \/ Lookup \/ Return

Spec == Init /\ [][Next]_vars

----------------------------------------------------------------------------
(* Two instances built with the same default value, assigned independently *)

PairAssignFirst == AssignOn(PairKeys) /\ UNCHANGED <<other_map, pc>>

PairAssignSecond ==
    \E keyBegin \in PairKeys, keyEnd \in PairKeys, val \in Values :
        /\ other_map' = assign(m_valBegin, other_map, keyBegin, keyEnd, val).m_map
        /\ UNCHANGED <<m_valBegin, m_map, call, pre_map, pc>>

PairNext == PairAssignFirst \/ PairAssignSecond \/ Return

SpecPair == Init /\ [][PairNext]_vars

----------------------------------------------------------------------------
(* IntervalMapTest                                                         *)

A == 65
B == 66
C == 67
D == 68
LastPrintedKey == 16

TestKeys == 0..LastPrintedKey

\* the assign calls of the test, in order
TestCalls ==
    << [keyBegin |-> 5,  keyEnd |-> 10, val |-> B],
       [keyBegin |-> 7,  keyEnd |-> 12, val |-> C],
       [keyBegin |-> 12, keyEnd |-> 15, val |-> D],
       [keyBegin |-> 5,  keyEnd |-> 7,  val |-> B],
       [keyBegin |-> 10, keyEnd |-> 12, val |-> A] >>

TestInit ==
    /\ m_valBegin = interval_map(A).m_valBegin
    /\ m_map = interval_map(A).m_map
    /\ call = ConstructorCall(A)
    /\ pre_map = <<>>
    /\ other_map = <<>>
    /\ pc = 0

TestAssign ==
    /\ call = NoCall
    /\ pc < Len(TestCalls)
    /\ LET c == TestCalls[pc + 1]
           r == assign(m_valBegin, m_map, c.keyBegin, c.keyEnd, c.val)
       IN  /\ m_valBegin' = r.m_valBegin
           /\ m_map' = r.m_map
           /\ pre_map' = m_map
           /\ call' = [fn |-> "assign", keyBegin |-> c.keyBegin,
                       keyEnd |-> c.keyEnd, val |-> c.val, key |-> 0, ret |-> 0]
    /\ pc' = pc + 1
    /\ UNCHANGED other_map

\* imap[i], between any two assign calls
TestLookup == LookupOn(TestKeys) /\ UNCHANGED <<other_map, pc>>

TestNext == TestAssign \/ TestLookup \/ Return

SpecTest == TestInit /\ [][TestNext]_vars

----------------------------------------------------------------------------
(* Vocabulary of the properties                                            *)

WellFormedAssign == call.fn = "assign" /\ call.keyBegin < call.keyEnd

EmptyIntervalAssign == call.fn = "assign" /\ ~(call.keyBegin < call.keyEnd)

HasKey(m, k) == \E i \in 1..Len(m) : m[i].first = k

ValueAtKey(m, k) == m[CHOOSE i \in 1..Len(m) : m[i].first = k].second

Table(m) == {m[i] : i \in 1..Len(m)}

\* value of the greatest stored boundary satisfying keep, valBegin if none
GreatestBoundary(valBegin, m, keep(_)) ==
    LET S == {i \in 1..Len(m) : keep(m[i].first)}
    IN  IF S = {} THEN valBegin
        ELSE m[CHOOSE i \in S : \A j \in S : m[j].first <= m[i].first].second

ValueAtOrBefore(valBegin, m, k) ==
    LET AtOrBefore(x) == x <= k IN GreatestBoundary(valBegin, m, AtOrBefore)

ValueBefore(valBegin, m, k) ==
    LET Before(x) == x < k IN GreatestBoundary(valBegin, m, Before)

SameLookups(valBegin, m1, m2) ==
    \A k \in ProbeKeys :
        operator_index(valBegin, m1, k) = operator_index(valBegin, m2, k)

\* the positions of m whose key lies in [lo, hi]
PositionsIn(m, lo, hi) ==
    {i \in 1..Len(m) : lo <= m[i].first /\ m[i].first <= hi}

\* the positions of m whose key is greater than k
PositionsAfter(m, k) == {i \in 1..Len(m) : k < m[i].first}

\* the least position of S, none if S is empty
FirstOf(S, none) ==
    IF S = {} THEN none ELSE CHOOSE i \in S : \A j \in S : i <= j

\* the begin and end decisions of the non-empty branch, taken with no stored
\* boundary: itStart = itEnd = begin(), valEnd = the default, nothing erased
GeneralDecisions(valBegin, keyBegin, keyEnd, val) ==
    LET none    == <<>>
        withBeg == IF /\ differsFromPreviousValue(none, begin(none), val)
                      /\ differsFromDefault(valBegin, none, begin(none), val)
                   THEN insert(none, make_pair(keyBegin, val))
                   ELSE none
    IN  IF ~(valBegin = val)
        THEN insert(withBeg, make_pair(keyEnd, valBegin))
        ELSE withBeg

----------------------------------------------------------------------------
(* Properties                                                              *)

\* C1: after a well-formed assign(begin, end, value), lookup(k) is value for
\* every key in [begin, end) and is what it was before the call elsewhere.
C1_RangeAssignCorrect ==
    WellFormedAssign =>
        \A k \in ProbeKeys :
            operator_index(m_valBegin, m_map, k) =
                IF call.keyBegin <= k /\ k < call.keyEnd
                THEN call.val
                ELSE operator_index(m_valBegin, pre_map, k)

\* a well-formed assign that overwrote a stored boundary inside the range,
\* with boundaries stored on both sides of the range
C1_Witness ==
    /\ WellFormedAssign
    /\ \E i, j, l \in 1..Len(pre_map) :
        /\ pre_map[i].first < call.keyBegin
        /\ call.keyBegin < pre_map[j].first /\ pre_map[j].first < call.keyEnd
        /\ call.keyEnd < pre_map[l].first
        /\ pre_map[j].second # call.val

\* C2: no two adjacent stored boundaries carry equal values, and the first
\* stored boundary never carries the default value.
C2_RedundancyFree ==
    /\ Len(m_map) > 0 => m_map[1].second # m_valBegin
    /\ \A i \in 1..(Len(m_map) - 1) : m_map[i].second # m_map[i + 1].second

\* C3: assign with !(begin < end) leaves the boundary table, and so every
\* lookup, as it was.
C3_EmptyIntervalNoOp ==
    EmptyIntervalAssign =>
        /\ m_map = pre_map
        /\ SameLookups(m_valBegin, m_map, pre_map)

\* an assign with begin > end whose end is a stored key of a non-empty table,
\* with a value that differs from the one in force there
C3_Witness ==
    /\ EmptyIntervalAssign
    /\ call.keyEnd < call.keyBegin
    /\ HasKey(pre_map, call.keyEnd)
    /\ operator_index(m_valBegin, pre_map, call.keyEnd) # call.val

\* C4: a well-formed assign of the value every key of [begin, end) already
\* has leaves the boundary table exactly as it was.
C4_CanonicalCompression ==
    (/\ WellFormedAssign
     /\ \A k \in ProbeKeys :
            call.keyBegin <= k /\ k < call.keyEnd =>
                operator_index(m_valBegin, pre_map, k) = call.val)
    => m_map = pre_map

\* C5: two instances with the same default value and the same lookup function
\* have the same boundary table.
C5_CanonicalUnique ==
    SameLookups(m_valBegin, m_map, other_map) => Table(m_map) = Table(other_map)

\* C6: operator[] returns the value of the greatest stored boundary at or
\* before the key, the default value if there is none, and changes nothing.
C6_LookupSemantics ==
    [][call'.fn = "operator[]" =>
        /\ call'.ret = ValueAtOrBefore(m_valBegin, m_map, call'.key)
        /\ m_map' = m_map
        /\ m_valBegin' = m_valBegin]_vars

\* a lookup that lands between two stored boundaries, and not on the default
C6_Witness ==
    /\ call.fn = "operator[]"
    /\ \E i \in 1..(Len(m_map) - 1) :
        /\ m_map[i].first < call.key
        /\ call.key < m_map[i + 1].first
        /\ call.ret = m_map[i].second
    /\ call.ret # m_valBegin

\* C7: no call changes the default value.
C7_DefaultNeverChanges == [][m_valBegin' = m_valBegin]_vars

\* a well-formed assign of a non-default value that changed the table
C7_Witness ==
    /\ WellFormedAssign
    /\ call.val # m_valBegin
    /\ m_map # pre_map

\* C8: the test's sequence of calls gives the lookups it asserts after each
\* call and ends with the table {5:B, 7:C, 10:A, 12:D, 15:A}.
C8_Scenario ==
    LET at(k) == operator_index(m_valBegin, m_map, k)
    IN  /\ pc = 1 => at(4) = A /\ at(5) = B /\ at(9) = B /\ at(10) = A
        /\ pc = 2 => at(6) = B /\ at(7) = C /\ at(11) = C /\ at(12) = A
        /\ pc = 3 => at(12) = D /\ at(14) = D /\ at(15) = A
        /\ pc = 4 => at(5) = B /\ at(6) = B /\ at(7) = C
        /\ pc = 5 => m_map = << make_pair(5, B), make_pair(7, C),
                                make_pair(10, A), make_pair(12, D),
                                make_pair(15, A) >>

\* the test has made its last assign call
C8_Witness == pc = 5 /\ call.fn = "assign" /\ Len(m_map) = 5

\* C9: after a well-formed assign, a boundary is stored at end exactly when
\* the value in force at end before the call differs from value, and it
\* carries that value.
C9_EndBoundary ==
    WellFormedAssign =>
        LET valueAfterEnd == operator_index(m_valBegin, pre_map, call.keyEnd)
        IN  /\ HasKey(m_map, call.keyEnd) <=> valueAfterEnd # call.val
            /\ HasKey(m_map, call.keyEnd) =>
                   ValueAtKey(m_map, call.keyEnd) = valueAfterEnd

\* C10: after a well-formed assign, a boundary is stored at begin exactly when
\* the value immediately preceding begin differs from value.
C10_BeginBoundary ==
    WellFormedAssign =>
        (HasKey(m_map, call.keyBegin) <=>
            ValueBefore(m_valBegin, pre_map, call.keyBegin) # call.val)

\* C11: a well-formed assign keeps every stored boundary with key < begin or
\* key > end, with its value; leaves no boundary strictly between begin and
\* end; and stores no new key other than begin and end, so the table grows by
\* at most two boundaries.
C11_AffectedSpan ==
    WellFormedAssign =>
        /\ \A i \in 1..Len(pre_map) :
               (pre_map[i].first < call.keyBegin \/ call.keyEnd < pre_map[i].first)
                   => pre_map[i] \in Table(m_map)
        /\ \A i \in 1..Len(m_map) :
               ~(call.keyBegin < m_map[i].first /\ m_map[i].first < call.keyEnd)
        /\ \A i \in 1..Len(m_map) :
               ~HasKey(pre_map, m_map[i].first)
                   => m_map[i].first \in {call.keyBegin, call.keyEnd}
        /\ Len(m_map) <= Len(pre_map) + 2

\* a well-formed assign between two stored boundaries that are kept, which
\* removed a boundary inside the range and stored new ones at begin and end
C11_Witness ==
    /\ WellFormedAssign
    /\ \E i, j, l \in 1..Len(pre_map) :
        /\ pre_map[i].first < call.keyBegin
        /\ call.keyBegin < pre_map[j].first /\ pre_map[j].first < call.keyEnd
        /\ call.keyEnd < pre_map[l].first
    /\ ~HasKey(pre_map, call.keyBegin) /\ HasKey(m_map, call.keyBegin)
    /\ ~HasKey(pre_map, call.keyEnd) /\ HasKey(m_map, call.keyEnd)

\* C12: a well-formed assign to the empty table leaves exactly
\* {begin: value, end: default}, and that is what the general begin and end
\* decisions give when no boundary precedes begin.
C12_EmptyTableCase ==
    (WellFormedAssign /\ pre_map = <<>>) =>
        /\ m_map = << make_pair(call.keyBegin, call.val),
                      make_pair(call.keyEnd, m_valBegin) >>
        /\ m_map = GeneralDecisions(m_valBegin, call.keyBegin, call.keyEnd,
                                    call.val)

\* C13: calling assign a second time with the same arguments leaves the
\* boundary table as the first call left it.
C13_AssignIdempotent ==
    call.fn = "assign" =>
        assign(m_valBegin, m_map, call.keyBegin, call.keyEnd, call.val).m_map
            = m_map

\* C14: when the constructor has run, the boundary table is empty and
\* lookup(k) returns the value given to the constructor for every key.
C14_InitialState ==
    call.fn = "interval_map" =>
        /\ m_map = <<>>
        /\ \A k \in ProbeKeys :
               operator_index(m_valBegin, m_map, k) = call.val

\* the constructor has just run with the greatest of the values
C14_Witness == call.fn = "interval_map" /\ call.val = MaxVal

\* C15: in a well-formed assign to a non-empty table, itStart is at a stored
\* entry every time its key is read; itEnd is the first boundary after end;
\* when the scan is over itStart is the first boundary with key >= begin,
\* or itEnd if there is none up to end, and is never after itEnd; and the
\* erased span holds exactly the stored keys of [begin, end].
C15_ScanPositions ==
    (WellFormedAssign /\ pre_map # <<>>) =>
        LET itEnd   == upper_bound(pre_map, call.keyEnd)
            itStart == itStart_of(pre_map, call.keyBegin, itEnd)
            span    == PositionsIn(pre_map, call.keyBegin, call.keyEnd)
        IN  /\ key_reads(pre_map, call.keyBegin, itEnd) \subseteq 1..Len(pre_map)
            /\ itEnd = FirstOf(PositionsAfter(pre_map, call.keyEnd), end(pre_map))
            /\ itStart = FirstOf(span, itEnd)
            /\ itStart <= itEnd
            /\ itStart..(itEnd - 1) = span
            /\ Table(erase(pre_map, itStart, itEnd))
                   = {pre_map[i] : i \in (1..Len(pre_map)) \ span}

\* a well-formed assign whose walk went back over two boundaries of
\* [begin, end], one of them at begin, and stopped on a boundary before
\* begin, with a boundary stored after end
C15_Witness ==
    /\ WellFormedAssign
    /\ Cardinality(PositionsIn(pre_map, call.keyBegin, call.keyEnd)) >= 2
    /\ HasKey(pre_map, call.keyBegin)
    /\ \E i \in 1..Len(pre_map) : pre_map[i].first < call.keyBegin
    /\ PositionsAfter(pre_map, call.keyEnd) # {}

\* C16: the last stored boundary, if there is one, carries the default value:
\* lookup(k) is the default for every key at or above the greatest stored key.
C16_LastBoundaryDefault ==
    Len(m_map) > 0 =>
        /\ m_map[Len(m_map)].second = m_valBegin
        /\ \A k \in ProbeKeys :
               m_map[Len(m_map)].first <= k
                   => operator_index(m_valBegin, m_map, k) = m_valBegin

\* a well-formed assign of a non-default value to a non-empty table, ending
\* above every stored boundary, which left at least three boundaries
C16_Witness ==
    /\ WellFormedAssign
    /\ call.val # m_valBegin
    /\ Len(pre_map) > 0
    /\ pre_map[Len(pre_map)].first < call.keyEnd
    /\ Len(m_map) >= 3

====
